---- MODULE Spec2Model ----
(***************************************************************************)
(* TV show tracker (FastAPI + SQLModel over SQLite): the Show and Watch    *)
(* tables and the request handlers of app/routers/shows.py and             *)
(* app/routers/users.py, the login and the token check of app/auth.py and *)
(* the seeding at startup of app/utils.py.  In Spec, WriteSpec, QuerySpec, *)
(* AuthSpec and SeedSpec a request runs to completion in one step: its     *)
(* session is opened, the handler body runs, and the session is closed (an *)
(* exception before session.commit() rolls the pending changes back).  In  *)
(* ConcSpec two workers serve watch_show and delete_show step by step.     *)
(*                                                                         *)
(* A handler is an operator from the store it reads (db) and its arguments *)
(* to the set of its outcomes [shows, watches, resp]: the store it leaves  *)
(* committed and the response it sends.  A handler has more than one       *)
(* outcome only where a query's .first() has several rows to pick from.    *)
(*                                                                         *)
(* Watch rows are kept as a bag of (user, show_id, rating, watched_at):    *)
(* the surrogate key Watch.id is never read by a handler and only gives a  *)
(* row its identity, which the bag keeps as the row's multiplicity.        *)
(***************************************************************************)
EXTENDS Integers, FiniteSets, Sequences, Bags, TLC

\* ---------------------------------------------------------------- bounds
\* datetime.utcnow() takes the values 0..MaxClock
MaxClock == 1

\* POST /auth/login is served while fewer than MaxTokens tokens are out
MaxTokens == 2

\* request inputs.  Titles are unique and no show is ever deleted (see
\* delete_show), so the store holds at most one show per title.
Titles  == {"", "Foo"}
Ratings == {-1, 0, 1, 5, 6}
ShowIds == 1..3

\* Optional[T]: None is the empty tuple, a present value a 1-tuple.
None    == << >>
Some(x) == << x >>

\* --------------------------------------------------------------- app/auth.py
ALLOWED_USERS == [ray |-> "password123", dana |-> "secret"]
Users == DOMAIN ALLOWED_USERS
UnknownUsers == {"nonexistent"}

\* JWT settings
SECRET_KEY == "dev-secret-change-me"
ACCESS_TOKEN_EXPIRE_MINUTES == 60

\* the worker processes that serve requests from the one database file
Workers == {"w1", "w2"}

VARIABLES
    shows,      \* committed rows of table show: [id, title, created_at]
    watches,    \* committed rows of table watch, a bag of [user, show_id, rating, watched_at]
    now,        \* the last value datetime.utcnow() returned, in minutes
    req,        \* the handler that served the last request
    resp,       \* the response to the last request: [status, body]
    tokens,     \* the access tokens POST /auth/login has issued
    sessions,   \* the workers whose Session(engine) is open
    calls       \* per worker, the request it is serving step by step

vars == << shows, watches, now, req, resp, tokens, sessions, calls >>

\* ------------------------------------------------------------ HTTP statuses
HTTP_200_OK == 200
HTTP_201_CREATED == 201
HTTP_204_NO_CONTENT == 204
HTTP_400_BAD_REQUEST == 400
HTTP_401_UNAUTHORIZED == 401
HTTP_403_FORBIDDEN == 403
HTTP_404_NOT_FOUND == 404
HTTP_500_INTERNAL_SERVER_ERROR == 500

\* A handler's HTTPException, and an exception the handler does not catch
\* (AttributeError, pydantic ValidationError, sqlalchemy IntegrityError),
\* which the framework answers with 500.
HTTPException(code, detail) == [status |-> code, body |-> detail]
ServerError(exc) == [status |-> HTTP_500_INTERNAL_SERVER_ERROR, body |-> exc]
Response(code, content) == [status |-> code, body |-> content]

\* ------------------------------------------------------------ app/models.py
\* Show.id is an INTEGER PRIMARY KEY: SQLite gives a new row max(id) + 1.
RECURSIVE MaxOf(_)
MaxOf(S) == IF S = {} THEN 0
            ELSE LET x == CHOOSE y \in S : TRUE
                     m == MaxOf(S \ {x})
                 IN IF x > m THEN x ELSE m

NextShowId(rows) == MaxOf({r.id : r \in rows}) + 1

Show(rows, title, t) == [id |-> NextShowId(rows), title |-> title, created_at |-> t]

\* Show.title: Field(unique=True): the commit of a row set with two equal
\* titles raises IntegrityError.
\* (mutant: the column is declared without unique=True)
TitleUnique_NotDeclared(rows) == TRUE

TitleUnique(rows) == \A a, b \in rows : a.title = b.title => a = b

Watch(user, show_id, rating, t) ==
    [user |-> user, show_id |-> show_id, rating |-> rating, watched_at |-> t]

\* ----------------------------------------------------------- app/schemas.py
\* ShowResponse(**kw): id, title, created_at and watched have no default, so
\* a call that leaves one out raises ValidationError; rating and watched_at
\* default to None.
ShowResponseRequired == {"id", "title", "created_at", "watched"}
ShowResponseDefaults == [rating |-> None, watched_at |-> None]

ShowResponseValid(kw) == ShowResponseRequired \subseteq DOMAIN kw

ShowResponse(kw) ==
    [f \in DOMAIN kw \cup DOMAIN ShowResponseDefaults |->
        IF f \in DOMAIN kw THEN kw[f] ELSE ShowResponseDefaults[f]]

\* a worker that serves no request
Idle == [pc |-> "idle"]

\* ------------------------------------------------------------ the store
DB == [shows |-> shows, watches |-> watches]

Out(s, w, r) == [shows |-> s, watches |-> w, resp |-> r]
\* the handler raises before any commit: the session is closed, nothing is kept
Raise(db, r) == Out(db.shows, db.watches, r)

\* --------------------------------------------------------------- app/auth.py
\* A token is the three segments jwt.encode() joins: wellformed says that it
\* parses as such, claims is its payload and key the key that signed it.
jwt_encode(claims, key) == [wellformed |-> TRUE, claims |-> claims, key |-> key]

\* jose.jwt.decode(token, key): JWTError for a token that does not parse, for
\* a signature made with another key, and for an exp claim that lies before
\* the current time.
jwt_decode(token, key, t) ==
    IF ~token.wellformed \/ token.key # key
    THEN [ok |-> FALSE]
    ELSE IF "exp" \in DOMAIN token.claims /\ token.claims.exp < t
    THEN [ok |-> FALSE]
    ELSE [ok |-> TRUE, payload |-> token.claims]

create_access_token(data, t) ==
    jwt_encode([exp |-> t + ACCESS_TOKEN_EXPIRE_MINUTES] @@ data, SECRET_KEY)

\* (mutant: any password of the table opens any account of the table)
verify_user_AnyKnownPassword(username, password) ==
    /\ username \in DOMAIN ALLOWED_USERS
    /\ \E u \in DOMAIN ALLOWED_USERS : ALLOWED_USERS[u] = password

verify_user(username, password) ==
    /\ username \in DOMAIN ALLOWED_USERS
    /\ ALLOWED_USERS[username] = password

credentials_exception ==
    HTTPException(HTTP_401_UNAUTHORIZED, "Could not validate credentials")

\* security = HTTPBearer(): a request without an Authorization header does
\* not reach get_current_user.  FastAPI answers it 403 up to 0.121 and 401
\* from 0.122 on; the repository pins no version.
HTTPBearer(authorization) ==
    IF authorization = None
    THEN {[ok |-> FALSE, resp |-> HTTPException(HTTP_403_FORBIDDEN, "Not authenticated")],
          [ok |-> FALSE, resp |-> HTTPException(HTTP_401_UNAUTHORIZED, "Not authenticated")]}
    ELSE {[ok |-> TRUE, credentials |-> authorization[1]]}

\* the identity, or the 401; authorization is the Optional bearer token
get_current_user(authorization, t) ==
    {IF ~c.ok THEN c
     ELSE LET payload == jwt_decode(c.credentials, SECRET_KEY, t)
          IN IF ~payload.ok
             THEN [ok |-> FALSE, resp |-> credentials_exception]
             ELSE IF "sub" \notin DOMAIN payload.payload
             THEN [ok |-> FALSE, resp |-> credentials_exception]
             ELSE IF payload.payload.sub \notin DOMAIN ALLOWED_USERS
             THEN [ok |-> FALSE, resp |-> credentials_exception]
             ELSE [ok |-> TRUE, user |-> payload.payload.sub]
     : c \in HTTPBearer(authorization)}

\* current_user: str = Depends(get_current_user): the handler body runs with
\* the identity (body[user] are its outcomes), a failed dependency is the
\* response.
Depends(db, auth, body) ==
    UNION {IF a.ok THEN body[a.user] ELSE {Raise(db, a.resp)} : a \in auth}

\* ------------------------------------------------------------- app/main.py
\* POST /auth/login
login(username, password, t) ==
    IF verify_user(username, password)
    THEN Response(HTTP_200_OK,
                  [access_token |-> create_access_token([sub |-> username], t),
                   token_type |-> "bearer",
                   user |-> username])
    ELSE HTTPException(HTTP_401_UNAUTHORIZED, "Incorrect username or password")

\* ---------------------------------------------------- app/routers/shows.py
\* select(Show).where(Show.id == show_id) / (Show.title == title)
ShowsById(db, show_id)  == {s \in db.shows : s.id = show_id}
ShowsByTitle(db, title) == {s \in db.shows : s.title = title}

\* (mutant: the where clause has Watch.user != user, so the lookup finds the
\* other users' rows of the show)
WatchesOf_OtherUsers(db, user, show_id) ==
    {w \in BagToSet(db.watches) : w.show_id = show_id /\ w.user # user}

\* (mutant: the where clause lacks Watch.user == user)
WatchesOf_AnyUser(db, user, show_id) ==
    {w \in BagToSet(db.watches) : w.show_id = show_id}

\* select(Watch).where(Watch.show_id == show_id, Watch.user == user)
WatchesOf(db, user, show_id) ==
    {w \in BagToSet(db.watches) : w.show_id = show_id /\ w.user = user}

\* select(Watch).where(Watch.show_id == show_id)
WatchesOfShow(db, show_id) == {w \in BagToSet(db.watches) : w.show_id = show_id}

\* the bag b without any copy of the rows in S
BagWithout(b, S) == [w \in BagToSet(b) \ S |-> b[w]]

\* POST /shows/
create_show(db, current_user, title, t) ==
    IF ShowsByTitle(db, title) # {}
    THEN {Raise(db, HTTPException(HTTP_400_BAD_REQUEST, "Show with this title already exists"))}
    ELSE LET show == Show(db.shows, title, t)
             rows == db.shows \cup {show}
             kw   == [id |-> show.id, title |-> show.title, created_at |-> show.created_at]
         IN IF ~TitleUnique(rows)
            THEN {Raise(db, ServerError("IntegrityError"))}
            ELSE {Out(rows, db.watches,
                      IF ShowResponseValid(kw)
                      THEN Response(HTTP_201_CREATED, ShowResponse(kw))
                      ELSE ServerError("ValidationError"))}

\* A title is truthy when it is a non-empty string (None and "" are falsy).
Truthy(title) == title # None /\ title[1] # ""

\* PATCH /shows/{show_id}; title is Optional[str]
update_show(db, current_user, show_id, title) ==
    IF ShowsById(db, show_id) = {}
    THEN {Raise(db, HTTPException(HTTP_404_NOT_FOUND, "Show not found"))}
    ELSE UNION {
        IF Truthy(title) /\ title[1] # show.title /\ ShowsByTitle(db, title[1]) # {}
        THEN {Raise(db, HTTPException(HTTP_400_BAD_REQUEST, "Show with this title already exists"))}
        ELSE LET updated == IF title # None THEN [show EXCEPT !.title = title[1]] ELSE show
                 rows    == (db.shows \ {show}) \cup {updated}
                 kw      == [id |-> updated.id, title |-> updated.title,
                             created_at |-> updated.created_at]
             IN IF ~TitleUnique(rows)
                THEN {Raise(db, ServerError("IntegrityError"))}
                ELSE {Out(rows, db.watches,
                          IF ShowResponseValid(kw)
                          THEN Response(HTTP_200_OK, ShowResponse(kw))
                          ELSE ServerError("ValidationError"))}
        : show \in ShowsById(db, show_id)}

\* (mutant: the result has a delete(), and line 183 deletes the rows)
ScalarResultMethods_WithDelete ==
    {"all", "first", "one", "one_or_none", "fetchall", "fetchmany",
     "partitions", "unique", "yield_per", "close", "delete"}

\* session.exec(select(...)) returns a sqlalchemy ScalarResult; these are its
\* public methods.  Calling any other name on it raises AttributeError.
ScalarResultMethods ==
    {"all", "first", "one", "one_or_none", "fetchall", "fetchmany",
     "partitions", "unique", "yield_per", "close"}

\* DELETE /shows/{show_id}
delete_show(db, current_user, show_id) ==
    IF ShowsById(db, show_id) = {}
    THEN {Raise(db, HTTPException(HTTP_404_NOT_FOUND, "Show not found"))}
    ELSE IF "delete" \notin ScalarResultMethods
         THEN {Raise(db, ServerError("AttributeError"))}
         ELSE {Out(db.shows \ ShowsById(db, show_id),
                   BagWithout(db.watches, WatchesOfShow(db, show_id)),
                   Response(HTTP_204_NO_CONTENT, ""))}

\* (mutant: only the upper end of the range is checked)
RatingValid_NoLowerEnd(rating) == rating <= 5

\* (mutant: only the lower end of the range is checked)
RatingValid_NoUpperEnd(rating) == 1 <= rating

\* 1 <= rating <= 5
RatingValid(rating) == 1 <= rating /\ rating <= 5

\* Watch.watched_at, read on the class of a table model, is a sqlalchemy
\* InstrumentedAttribute; these are the names it answers to.  The pydantic
\* field info, which has default_factory, is not reachable through it.
InstrumentedAttributeNames ==
    {"key", "property", "comparator", "parent", "class_", "impl",
     "in_", "is_", "asc", "desc", "label", "type", "expression"}

\* POST /shows/{show_id}/watch
watch_show(db, current_user, show_id, rating, t) ==
    IF ~RatingValid(rating)
    THEN {Raise(db, HTTPException(HTTP_400_BAD_REQUEST, "Rating must be between 1 and 5"))}
    ELSE IF ShowsById(db, show_id) = {}
    THEN {Raise(db, HTTPException(HTTP_404_NOT_FOUND, "Show not found"))}
    ELSE IF WatchesOf(db, current_user, show_id) # {}
    THEN {IF "default_factory" \notin InstrumentedAttributeNames
          THEN Raise(db, ServerError("AttributeError"))
          ELSE Out(db.shows,
                   (db.watches (-) SetToBag({existing_watch}))
                      (+) SetToBag({[existing_watch EXCEPT !.rating = rating,
                                                           !.watched_at = t]}),
                   Response(HTTP_201_CREATED, "Show marked as watched"))
          : existing_watch \in WatchesOf(db, current_user, show_id)}
    ELSE {Out(db.shows,
              db.watches (+) SetToBag({Watch(current_user, show_id, rating, t)}),
              Response(HTTP_201_CREATED, "Show marked as watched"))}

\* (mutant: deleting a watch that is not there is answered like a deletion)
unwatch_show_Idempotent(db, current_user, show_id) ==
    IF ShowsById(db, show_id) = {}
    THEN {Raise(db, HTTPException(HTTP_404_NOT_FOUND, "Show not found"))}
    ELSE {Out(db.shows, BagWithout(db.watches, WatchesOf(db, current_user, show_id)),
              Response(HTTP_204_NO_CONTENT, ""))}

\* (mutant: the lookup lacks Watch.user == current_user, and the show's
\* rows of every user are deleted)
unwatch_show_AllUsers(db, current_user, show_id) ==
    IF ShowsById(db, show_id) = {}
    THEN {Raise(db, HTTPException(HTTP_404_NOT_FOUND, "Show not found"))}
    ELSE IF WatchesOfShow(db, show_id) # {}
    THEN {Out(db.shows, BagWithout(db.watches, WatchesOfShow(db, show_id)),
              Response(HTTP_204_NO_CONTENT, ""))}
    ELSE {Raise(db, HTTPException(HTTP_404_NOT_FOUND,
                                  "Show not marked as watched by this user"))}

\* DELETE /shows/{show_id}/watch
unwatch_show(db, current_user, show_id) ==
    IF ShowsById(db, show_id) = {}
    THEN {Raise(db, HTTPException(HTTP_404_NOT_FOUND, "Show not found"))}
    ELSE IF WatchesOf(db, current_user, show_id) # {}
    THEN {Out(db.shows, db.watches (-) SetToBag({watch}),
              Response(HTTP_204_NO_CONTENT, ""))
          : watch \in WatchesOf(db, current_user, show_id)}
    ELSE {Raise(db, HTTPException(HTTP_404_NOT_FOUND,
                                  "Show not marked as watched by this user"))}

\* ------------------------------------------------------------ query results
\* select(Show, Watch.rating, Watch.watched_at).join(Watch, Show.id ==
\* Watch.show_id).where(Watch.user == user): one result row per Watch row of
\* the user whose show exists, as a bag of [show, rating, watched_at].
WatchedRows(db, user) ==
    LET pairs == {p \in db.shows \X BagToSet(db.watches) :
                     p[1].id = p[2].show_id /\ p[2].user = user}
        row(p) == [show |-> p[1], rating |-> p[2].rating, watched_at |-> p[2].watched_at]
    IN [r \in {row(p) : p \in pairs} |->
           LET p == CHOOSE q \in pairs : row(q) = r IN db.watches[p[2]]]

\* select(Show).where(~Show.id.in_(select(Watch.show_id).where(Watch.user == user)))
UnwatchedRows(db, user) ==
    {s \in db.shows : s.id \notin {w.show_id : w \in {x \in BagToSet(db.watches) : x.user = user}}}

\* A multi-column result row is a sqlalchemy Row: a Sequence that is not a
\* subclass of tuple, whose attributes are its columns' keys.
RowClasses == {"Row", "BaseRow", "Sequence", "object"}
RowKeys    == {"Show", "rating", "watched_at"}
IsInstance(classes, c) == c \in classes

\* the bag of f(r), r in bag b, for f one-to-one on the rows of b
BagMap(f(_), b) ==
    [e \in {f(r) : r \in BagToSet(b)} |->
        b[CHOOSE r \in BagToSet(b) : f(r) = e]]

\* GET /shows/?watched=...; watched is Optional[bool].  The body is the bag
\* of the entries of the returned list.
list_shows(db, current_user, watched) ==
    IF watched # None
    THEN IF watched[1]
         THEN LET results == WatchedRows(db, current_user)
                  entry(r) == ShowResponse([id |-> r.show.id, title |-> r.show.title,
                                            created_at |-> r.show.created_at,
                                            watched |-> TRUE, rating |-> Some(r.rating)])
                  \* the branch for a result that is no tuple reads result.id,
                  \* result.title and result.created_at
                  other(r) == ShowResponse([id |-> r.show.id, title |-> r.show.title,
                                            created_at |-> r.show.created_at,
                                            watched |-> FALSE])
              IN IF results = EmptyBag \/ IsInstance(RowClasses, "tuple")
                 THEN {Raise(db, Response(HTTP_200_OK, BagMap(entry, results)))}
                 ELSE IF {"id", "title", "created_at"} \subseteq RowKeys
                      THEN {Raise(db, Response(HTTP_200_OK, BagMap(other, results)))}
                      ELSE {Raise(db, ServerError("AttributeError"))}
         ELSE LET entry(s) == ShowResponse([id |-> s.id, title |-> s.title,
                                            created_at |-> s.created_at,
                                            watched |-> FALSE])
              IN {Raise(db, Response(HTTP_200_OK,
                                     SetToBag({entry(s) : s \in UnwatchedRows(db, current_user)})))}
    ELSE LET \* .first() of the user's Watch rows of a show: None, or any of them
             first(s) == IF WatchesOf(db, current_user, s.id) = {} THEN {None}
                         ELSE {Some(w) : w \in WatchesOf(db, current_user, s.id)}
             picks == {f \in [db.shows -> UNION {first(s) : s \in db.shows}] :
                          \A s \in db.shows : f[s] \in first(s)}
             entry(s, watch) == ShowResponse([id |-> s.id, title |-> s.title,
                                              created_at |-> s.created_at,
                                              watched |-> (watch # None),
                                              rating |-> IF watch # None
                                                         THEN Some(watch[1].rating)
                                                         ELSE None])
         IN {Raise(db, Response(HTTP_200_OK,
                                SetToBag({entry(s, f[s]) : s \in db.shows}))) : f \in picks}

\* ---------------------------------------------------- app/routers/users.py
WatchResponse(id, title, rating, watched_at) ==
    [id |-> id, title |-> title, rating |-> rating, watched_at |-> watched_at]

\* app/routers/users.py imports UnwatchedShowResponse from app/schemas.py,
\* which no longer defines it; its fields are those of the specification's
\* user_unwatched entries.
UnwatchedShowResponse(id, title) == [id |-> id, title |-> title]

\* GET /users/{username}/watched
get_user_watched_shows(db, username, current_user) ==
    IF username \notin DOMAIN ALLOWED_USERS
    THEN {Raise(db, HTTPException(HTTP_404_NOT_FOUND, "User not found"))}
    ELSE LET results == WatchedRows(db, username)
             entry(r) == WatchResponse(r.show.id, r.show.title, r.rating, r.watched_at)
         IN {Raise(db, Response(HTTP_200_OK,
                                IF IsInstance(RowClasses, "tuple")
                                THEN BagMap(entry, results)
                                ELSE EmptyBag))}

\* (mutant: a user is known once a Watch row carries the name)
get_user_unwatched_shows_ByActivity(db, username, current_user) ==
    IF username \notin {w.user : w \in BagToSet(db.watches)}
    THEN {Raise(db, HTTPException(HTTP_404_NOT_FOUND, "User not found"))}
    ELSE {Raise(db, Response(HTTP_200_OK,
                             SetToBag({UnwatchedShowResponse(s.id, s.title)
                                         : s \in UnwatchedRows(db, username)})))}

\* GET /users/{username}/unwatched
get_user_unwatched_shows(db, username, current_user) ==
    IF username \notin DOMAIN ALLOWED_USERS
    THEN {Raise(db, HTTPException(HTTP_404_NOT_FOUND, "User not found"))}
    ELSE {Raise(db, Response(HTTP_200_OK,
                             SetToBag({UnwatchedShowResponse(s.id, s.title)
                                         : s \in UnwatchedRows(db, username)})))}

\* ------------------------------------------------------------------ requests
\* One request served from start to end by handler op with outcome set outs.
Serve(op, outs) ==
    \E o \in outs :
        /\ shows' = o.shows
        /\ watches' = o.watches
        /\ resp' = o.resp
        /\ req' = op
        /\ UNCHANGED << tokens, sessions, calls >>

\* datetime.utcnow() moves on between requests.
Tick ==
    /\ now < MaxClock
    /\ now' = now + 1
    /\ UNCHANGED << shows, watches, req, resp, tokens, sessions, calls >>

CreateShow(u, title) ==
    /\ Serve("create_show", create_show(DB, u, title, now))
    /\ UNCHANGED now

UpdateShow(u, id, title) ==
    /\ Serve("update_show", update_show(DB, u, id, title))
    /\ UNCHANGED now

DeleteShow(u, id) ==
    /\ Serve("delete_show", delete_show(DB, u, id))
    /\ UNCHANGED now

WatchShow(u, id, rating) ==
    /\ Serve("watch_show", watch_show(DB, u, id, rating, now))
    /\ UNCHANGED now

UnwatchShow(u, id) ==
    /\ Serve("unwatch_show", unwatch_show(DB, u, id))
    /\ UNCHANGED now

ListShows(u, watched) ==
    /\ Serve("list_shows", list_shows(DB, u, watched))
    /\ UNCHANGED now

GetUserWatchedShows(u, username) ==
    /\ Serve("get_user_watched_shows", get_user_watched_shows(DB, username, u))
    /\ UNCHANGED now

GetUserUnwatchedShows(u, username) ==
    /\ Serve("get_user_unwatched_shows", get_user_unwatched_shows(DB, username, u))
    /\ UNCHANGED now

OptTitles == {None} \cup {Some(x) : x \in Titles}
OptBools  == {None, Some(TRUE), Some(FALSE)}

Init ==
    /\ shows = {}
    /\ watches = EmptyBag
    /\ now = 0
    /\ req = "startup"
    /\ resp = Response(HTTP_200_OK, "startup")
    /\ tokens = {}
    /\ sessions = {}
    /\ calls = [w \in Workers |-> Idle]

\* the requests that can change the store
Writes ==
    \/ \E u \in Users, title \in Titles : CreateShow(u, title)
    \/ \E u \in Users, id \in ShowIds, title \in OptTitles : UpdateShow(u, id, title)
    \/ \E u \in Users, id \in ShowIds : DeleteShow(u, id)
    \/ \E u \in Users, id \in ShowIds, rating \in Ratings : WatchShow(u, id, rating)
    \/ \E u \in Users, id \in ShowIds : UnwatchShow(u, id)

\* the requests that only read it
Queries ==
    \/ \E u \in Users, watched \in OptBools : ListShows(u, watched)
    \/ \E u \in Users, username \in Users \cup UnknownUsers : GetUserWatchedShows(u, username)
    \/ \E u \in Users, username \in Users \cup UnknownUsers : GetUserUnwatchedShows(u, username)

Next == Tick \/ Writes \/ Queries

Spec == Init /\ [][Next]_vars

\* The store as the writing requests alone leave it: the same Show and Watch
\* rows are reachable as under Spec, without the responses of the queries.
WriteNext == Tick \/ Writes

WriteSpec == Init /\ [][WriteNext]_vars

\* The queries between the requests that create shows and add and remove
\* Watch rows, with one valid and one invalid rating.
QueryNext ==
    \/ Tick
    \/ \E u \in Users, title \in Titles : CreateShow(u, title)
    \/ \E u \in Users, id \in ShowIds, rating \in {5, 6} : WatchShow(u, id, rating)
    \/ \E u \in Users, id \in ShowIds : UnwatchShow(u, id)
    \/ Queries

QuerySpec == Init /\ [][QueryNext]_vars

\* ------------------------------------------------- requests with credentials
\* login inputs
LoginNames == Users \cup UnknownUsers
Passwords  == {"password123", "secret", "Password123", ""}

\* Tokens nobody got from POST /auth/login: one that does not parse, one
\* signed with another key, and two signed with SECRET_KEY under another
\* credential table (an unknown subject, no subject).
FarExpiry == 1000
ForgedTokens ==
    {[wellformed |-> FALSE, claims |-> [sub |-> "ray"], key |-> SECRET_KEY],
     jwt_encode([sub |-> "ray", exp |-> FarExpiry], "guessed-key"),
     jwt_encode([sub |-> "nonexistent", exp |-> FarExpiry], SECRET_KEY),
     jwt_encode([exp |-> FarExpiry], SECRET_KEY)}

\* the Authorization header of a request: none, or a bearer token
Credentials == {None} \cup {Some(tok) : tok \in tokens \cup ForgedTokens}

\* an hour passes
Hour ==
    /\ now <= MaxClock
    /\ now' = now + ACCESS_TOKEN_EXPIRE_MINUTES
    /\ UNCHANGED << shows, watches, req, resp, tokens, sessions, calls >>

Login(username, password) ==
    /\ Cardinality(tokens) < MaxTokens
    /\ resp' = login(username, password, now)
    /\ req' = "login"
    /\ tokens' = IF resp'.status = HTTP_200_OK
                 THEN tokens \cup {resp'.body.access_token}
                 ELSE tokens
    /\ UNCHANGED << shows, watches, now, sessions, calls >>

CreateShowAs(cred, title) ==
    /\ Serve("create_show",
             Depends(DB, get_current_user(cred, now),
                     [u \in Users |-> create_show(DB, u, title, now)]))
    /\ UNCHANGED now

UpdateShowAs(cred, id, title) ==
    /\ Serve("update_show",
             Depends(DB, get_current_user(cred, now),
                     [u \in Users |-> update_show(DB, u, id, title)]))
    /\ UNCHANGED now

DeleteShowAs(cred, id) ==
    /\ Serve("delete_show",
             Depends(DB, get_current_user(cred, now),
                     [u \in Users |-> delete_show(DB, u, id)]))
    /\ UNCHANGED now

WatchShowAs(cred, id, rating) ==
    /\ Serve("watch_show",
             Depends(DB, get_current_user(cred, now),
                     [u \in Users |-> watch_show(DB, u, id, rating, now)]))
    /\ UNCHANGED now

UnwatchShowAs(cred, id) ==
    /\ Serve("unwatch_show",
             Depends(DB, get_current_user(cred, now),
                     [u \in Users |-> unwatch_show(DB, u, id)]))
    /\ UNCHANGED now

ListShowsAs(cred, watched) ==
    /\ Serve("list_shows",
             Depends(DB, get_current_user(cred, now),
                     [u \in Users |-> list_shows(DB, u, watched)]))
    /\ UNCHANGED now

GetUserWatchedShowsAs(cred, username) ==
    /\ Serve("get_user_watched_shows",
             Depends(DB, get_current_user(cred, now),
                     [u \in Users |-> get_user_watched_shows(DB, username, u)]))
    /\ UNCHANGED now

GetUserUnwatchedShowsAs(cred, username) ==
    /\ Serve("get_user_unwatched_shows",
             Depends(DB, get_current_user(cred, now),
                     [u \in Users |-> get_user_unwatched_shows(DB, username, u)]))
    /\ UNCHANGED now

\* Login and the protected routes, called with any Authorization header, on
\* one show.
AuthNext ==
    \/ Tick
    \/ Hour
    \/ \E username \in LoginNames, password \in Passwords : Login(username, password)
    \/ \E cred \in Credentials : CreateShowAs(cred, "Foo")
    \/ \E cred \in Credentials : UpdateShowAs(cred, 1, Some("Foo"))
    \/ \E cred \in Credentials : DeleteShowAs(cred, 1)
    \/ \E cred \in Credentials : WatchShowAs(cred, 1, 5)
    \/ \E cred \in Credentials : UnwatchShowAs(cred, 1)
    \/ \E cred \in Credentials : ListShowsAs(cred, None)
    \/ \E cred \in Credentials : GetUserWatchedShowsAs(cred, "ray")
    \/ \E cred \in Credentials : GetUserUnwatchedShowsAs(cred, "ray")

AuthSpec == Init /\ [][AuthNext]_vars

\* --------------------------------------------------- requests step by step
\* Two workers serve watch_show and delete_show from the same database
\* file.  A request is split where it talks to the store: the dependency
\* get_session opens the session, each SELECT and the commit are one step,
\* and the dependency's exit closes the session before the response leaves.

\* app/db.py SessionLocal: session = Session(engine)
SessionLocal_enter(open, w) == open \cup {w}

\* (mutant: session.close() follows the yield without try/finally, so it is
\* skipped when the handler raises)
SessionLocal_exit_NoFinally(open, w, how) ==
    IF how = "return" THEN open \ {w} ELSE open

\* app/db.py SessionLocal: finally: session.close(); how is the way the
\* handler ended: "return", "HTTPException" or "exception"
SessionLocal_exit(open, w, how) == open \ {w}

\* the handler's end: what it answers and how it left its body
Exit(c, r, how) == [pc |-> "exit", op |-> c.op, show_id |-> c.show_id, resp |-> r, how |-> how]

StoreUnchanged == UNCHANGED << shows, watches >>

BeginWatchShow(w, u, id, rating) ==
    /\ calls[w].pc = "idle"
    /\ sessions' = SessionLocal_enter(sessions, w)
    /\ calls' = [calls EXCEPT ![w] = [pc |-> "find_show", op |-> "watch_show", user |-> u,
                                      show_id |-> id, rating |-> rating]]
    /\ UNCHANGED << shows, watches, now, req, resp, tokens >>

\* shows.py 198-209: the rating check and the lookup of the show
WatchShowFindShow(w) ==
    LET c == calls[w] IN
    /\ c.pc = "find_show" /\ c.op = "watch_show"
    /\ calls' = [calls EXCEPT ![w] =
          IF ~RatingValid(c.rating)
          THEN Exit(c, HTTPException(HTTP_400_BAD_REQUEST, "Rating must be between 1 and 5"),
                    "HTTPException")
          ELSE IF ShowsById(DB, c.show_id) = {}
          THEN Exit(c, HTTPException(HTTP_404_NOT_FOUND, "Show not found"), "HTTPException")
          ELSE [c EXCEPT !.pc = "find_watch"]]
    /\ UNCHANGED << shows, watches, now, req, resp, tokens, sessions >>

\* shows.py 211-214: existing_watch = ... .first()
WatchShowFindWatch(w) ==
    LET c == calls[w] IN
    /\ c.pc = "find_watch" /\ c.op = "watch_show"
    /\ \E existing_watch \in IF WatchesOf(DB, c.user, c.show_id) = {} THEN {None}
                             ELSE {Some(x) : x \in WatchesOf(DB, c.user, c.show_id)} :
          calls' = [calls EXCEPT ![w] =
                       [pc |-> "write", op |-> c.op, user |-> c.user, show_id |-> c.show_id,
                        rating |-> c.rating, existing_watch |-> existing_watch]]
    /\ UNCHANGED << shows, watches, now, req, resp, tokens, sessions >>

\* shows.py 216-227: update the row found, or add a new one, and commit
WatchShowWrite(w) ==
    LET c == calls[w] IN
    /\ c.pc = "write" /\ c.op = "watch_show"
    /\ IF c.existing_watch # None
       THEN IF "default_factory" \notin InstrumentedAttributeNames
            THEN /\ calls' = [calls EXCEPT ![w] = Exit(c, ServerError("AttributeError"), "exception")]
                 /\ StoreUnchanged
            ELSE IF c.existing_watch[1] \in BagToSet(watches)
            THEN /\ watches' = (watches (-) SetToBag({c.existing_watch[1]}))
                                  (+) SetToBag({[c.existing_watch[1] EXCEPT !.rating = c.rating,
                                                                          !.watched_at = now]})
                 /\ shows' = shows
                 /\ calls' = [calls EXCEPT ![w] =
                                 Exit(c, Response(HTTP_201_CREATED, "Show marked as watched"), "return")]
            ELSE /\ calls' = [calls EXCEPT ![w] = Exit(c, ServerError("StaleDataError"), "exception")]
                 /\ StoreUnchanged
       ELSE /\ watches' = watches (+) SetToBag({Watch(c.user, c.show_id, c.rating, now)})
            /\ shows' = shows
            /\ calls' = [calls EXCEPT ![w] =
                            Exit(c, Response(HTTP_201_CREATED, "Show marked as watched"), "return")]
    /\ UNCHANGED << now, req, resp, tokens, sessions >>

BeginDeleteShow(w, u, id) ==
    /\ calls[w].pc = "idle"
    /\ sessions' = SessionLocal_enter(sessions, w)
    /\ calls' = [calls EXCEPT ![w] = [pc |-> "find_show", op |-> "delete_show", user |-> u,
                                      show_id |-> id]]
    /\ UNCHANGED << shows, watches, now, req, resp, tokens >>

\* shows.py 176-181: the lookup of the show
DeleteShowFindShow(w) ==
    LET c == calls[w] IN
    /\ c.pc = "find_show" /\ c.op = "delete_show"
    /\ calls' = [calls EXCEPT ![w] =
          IF ShowsById(DB, c.show_id) = {}
          THEN Exit(c, HTTPException(HTTP_404_NOT_FOUND, "Show not found"), "HTTPException")
          ELSE [c EXCEPT !.pc = "purge"]]
    /\ UNCHANGED << shows, watches, now, req, resp, tokens, sessions >>

\* shows.py 183-186: delete the watches of the show, the show, and commit
DeleteShowPurge(w) ==
    LET c == calls[w] IN
    /\ c.pc = "purge" /\ c.op = "delete_show"
    /\ IF "delete" \notin ScalarResultMethods
       THEN /\ calls' = [calls EXCEPT ![w] = Exit(c, ServerError("AttributeError"), "exception")]
            /\ StoreUnchanged
       ELSE /\ shows' = shows \ ShowsById(DB, c.show_id)
            /\ watches' = BagWithout(watches, WatchesOfShow(DB, c.show_id))
            /\ calls' = [calls EXCEPT ![w] = Exit(c, Response(HTTP_204_NO_CONTENT, ""), "return")]
    /\ UNCHANGED << now, req, resp, tokens, sessions >>

\* get_session's with block is left, the response is sent
Finish(w) ==
    LET c == calls[w] IN
    /\ c.pc = "exit"
    /\ sessions' = SessionLocal_exit(sessions, w, c.how)
    /\ resp' = c.resp
    /\ req' = c.op
    /\ calls' = [calls EXCEPT ![w] = Idle]
    /\ UNCHANGED << shows, watches, now, tokens >>

\* requests on show 1 ("Foo") and on show 2, which does not exist
ConcNext ==
    \/ Tick
    \/ CreateShow("ray", "Foo")
    \/ \E w \in Workers, u \in Users, id \in {1, 2}, rating \in {0, 5} :
          BeginWatchShow(w, u, id, rating)
    \/ \E w \in Workers : WatchShowFindShow(w)
    \/ \E w \in Workers : WatchShowFindWatch(w)
    \/ \E w \in Workers : WatchShowWrite(w)
    \/ \E w \in Workers, id \in {1, 2} : BeginDeleteShow(w, "ray", id)
    \/ \E w \in Workers : DeleteShowFindShow(w)
    \/ \E w \in Workers : DeleteShowPurge(w)
    \/ \E w \in Workers : Finish(w)

ConcSpec == Init /\ [][ConcNext]_vars

\* ------------------------------------------------------ app/utils.py, startup
\* demo_shows, in the order they are added
DemoTitles ==
    << "Breaking Bad", "The Wire", "Mad Men", "The Sopranos", "Game of Thrones" >>

\* (mutant: the demo shows are added without looking at the table first)
seed_demo_data_NoCountCheck(db, t) ==
    LET demo_shows == {[id |-> NextShowId(db.shows) + i - 1, title |-> DemoTitles[i],
                        created_at |-> t] : i \in DOMAIN DemoTitles}
        rows == db.shows \cup demo_shows
    IN IF ~TitleUnique(rows)
       THEN {Raise(db, ServerError("IntegrityError"))}
       ELSE {Out(rows, db.watches, Response(HTTP_200_OK, "Demo data seeded successfully!"))}

\* seed_demo_data(); the body of the outcome is what it prints
seed_demo_data(db, t) ==
    IF Cardinality(db.shows) > 0
    THEN {Raise(db, Response(HTTP_200_OK, ""))}
    ELSE LET demo_shows == {[id |-> NextShowId(db.shows) + i - 1, title |-> DemoTitles[i],
                             created_at |-> t] : i \in DOMAIN DemoTitles}
             rows == db.shows \cup demo_shows
         IN IF ~TitleUnique(rows)
            THEN {Raise(db, ServerError("IntegrityError"))}
            ELSE {Out(rows, db.watches, Response(HTTP_200_OK, "Demo data seeded successfully!"))}

\* the values of the environment variable SEED that are tried: None is unset
SeedValues == {None, Some("true"), Some("TRUE"), Some("false"), Some("1")}

\* str.lower() on those values and on the default
lower(str) == CASE str = "TRUE" -> "true"
                [] OTHER -> str

\* os.getenv(name, default), env the variable's Optional value
getenv(env, default) == IF env = None THEN default ELSE env[1]

should_seed_data(env) == lower(getenv(env, "false")) = "true"

\* app/main.py startup_event(): init_db() creates the missing tables and
\* changes no row
startup_event(db, env, t) ==
    IF should_seed_data(env)
    THEN seed_demo_data(db, t)
    ELSE {Raise(db, Response(HTTP_200_OK, ""))}

\* the server process is started (again) with SEED = env
Startup(env) ==
    /\ Serve("startup_event", startup_event(DB, env, now))
    /\ UNCHANGED now

\* starts of the server between requests that create, rename and rate shows
SeedNext ==
    \/ Tick
    \/ \E env \in SeedValues : Startup(env)
    \/ \E title \in {"Foo", "The Wire"} : CreateShow("ray", title)
    \/ \E id \in {1, 2} : UpdateShow("ray", id, Some("Mad Men"))
    \/ \E id \in {1, 6} : WatchShow("ray", id, 5)

SeedSpec == Init /\ [][SeedNext]_vars

\* ==================================================================== claims
\* the store after the step
DBNext == [shows |-> shows', watches |-> watches']

\* the rows of bag b for (user, show_id), and how many there are
RowsFor(b, user, show_id) == {w \in BagToSet(b) : w.user = user /\ w.show_id = show_id}
CountFor(b, user, show_id) ==
    BagCardinality([w \in RowsFor(b, user, show_id) |-> b[w]])

\* how many entries of the response list b have this id
CountId(b, id) == BagCardinality([e \in {x \in BagToSet(b) : x.id = id} |-> b[e]])

ValidRatings == {r \in Ratings : r \in 1..5}

\* C1: in every reachable state no two distinct Show rows have the same
\* title, whatever create-show and rename-show requests were served, the
\* empty title included.
C1_TitlesUnique == \A a, b \in shows : a # b => a.title # b.title

\* C1 witness: with two shows in the store, one of them titled "", a rename
\* has just been refused by the unique index.
C1_Witness ==
    /\ Cardinality(shows) = 2
    /\ \E s \in shows : s.title = ""
    /\ req = "update_show"
    /\ resp.body = "IntegrityError"

\* C2: in every reachable state there is at most one Watch row for each
\* (user, show_id) pair.
C2_OneWatchPerPair ==
    \A u \in Users, id \in ShowIds : CountFor(watches, u, id) <= 1

\* C2 witness: a mark-watched request for a pair that already had its row has
\* been served, and both users hold a row for the same show.
C2_Witness ==
    /\ req = "watch_show"
    /\ resp.body = "AttributeError"
    /\ \E id \in ShowIds : \A u \in Users : CountFor(watches, u, id) = 1

\* C3 (as claimed): a delete-show request for an existing show is answered
\* 204 and leaves the store without that show and without any Watch row of
\* it, all other rows unchanged.
C3_DeleteRemovesShowAndWatches ==
    [][\A u \in Users, id \in ShowIds :
          ((\E s \in shows : s.id = id) /\ DeleteShow(u, id)) =>
              /\ resp'.status = 204
              /\ shows' = {s \in shows : s.id # id}
              /\ watches' = [w \in {x \in BagToSet(watches) : x.show_id # id} |-> watches[w]]
      ]_vars

\* C4 (as claimed): for every user U and existing show S, S is in U's
\* unwatched list (GET /users/U/unwatched and GET /shows/?watched=false) iff
\* U has no Watch row for S, and U's watched list and unwatched list together
\* hold every existing show exactly once.
C4_ViewsPartitionShows ==
    \A u \in Users :
        /\ \A o \in get_user_unwatched_shows(DB, u, u) :
              /\ o.resp.status = 200
              /\ \A s \in shows :
                    CountId(o.resp.body, s.id) > 0 <=> CountFor(watches, u, s.id) = 0
        /\ \A o \in list_shows(DB, u, Some(FALSE)) :
              /\ o.resp.status = 200
              /\ \A s \in shows :
                    CountId(o.resp.body, s.id) > 0 <=> CountFor(watches, u, s.id) = 0
        /\ \A ow \in get_user_watched_shows(DB, u, u), ou \in get_user_unwatched_shows(DB, u, u) :
              /\ ow.resp.status = 200
              /\ \A s \in shows :
                    CountId(ow.resp.body, s.id) + CountId(ou.resp.body, s.id) = 1
              /\ \A e \in BagToSet(ow.resp.body) \cup BagToSet(ou.resp.body) :
                    \E s \in shows : s.id = e.id

\* C5 (as claimed): mark_watched(U, S, r), r in 1..5, on an existing show S
\* succeeds, and the mark_unwatched(U, S) that follows it succeeds and leaves
\* no Watch row for (U, S), whether or not U had watched S before.
C5_WatchThenUnwatchClears ==
    [][\A u \in Users, id \in ShowIds, r \in ValidRatings :
          ((\E s \in shows : s.id = id) /\ WatchShow(u, id, r)) =>
              /\ resp'.status = 201
              /\ \A o \in unwatch_show(DBNext, u, id) :
                    /\ o.resp.status = 204
                    /\ CountFor(o.watches, u, id) = 0
      ]_vars

\* C6 (as claimed): mark_watched(U, S, r), r in 1..5, on an existing show S
\* is answered 201; an existing row for (U, S) gets rating r and watched_at
\* = now and no row is added, otherwise exactly one row (U, S, r, now) is
\* added.
C6_WatchUpserts ==
    [][\A u \in Users, id \in ShowIds, r \in ValidRatings :
          ((\E s \in shows : s.id = id) /\ WatchShow(u, id, r)) =>
              /\ resp'.status = 201
              /\ shows' = shows
              /\ IF RowsFor(watches, u, id) = {}
                 THEN watches' = watches (+) SetToBag({[user |-> u, show_id |-> id,
                                                        rating |-> r, watched_at |-> now]})
                 ELSE \E w \in RowsFor(watches, u, id) :
                         watches' = (watches (-) SetToBag({w})) (+)
                                    SetToBag({[user |-> u, show_id |-> id,
                                               rating |-> r, watched_at |-> now]})
      ]_vars

\* C7: in every reachable state, a mark_watched request with a rating
\* outside 1..5 is answered 400 and leaves the Show and Watch rows as they
\* are, whether or not the user has a Watch row for the show.
C7_InvalidRatingRejected ==
    \A u \in Users, id \in ShowIds, r \in Ratings \ ValidRatings :
        \A o \in watch_show(DB, u, id, r, now) :
            /\ o.resp.status = 400
            /\ o.shows = shows
            /\ o.watches = watches

\* C7 witness: a mark_watched request has been answered 400 in a store where
\* every user has a Watch row for every show.
C7_Witness ==
    /\ req = "watch_show"
    /\ resp.status = 400
    /\ Cardinality(shows) = 2
    /\ \A s \in shows, u \in Users : CountFor(watches, u, s.id) = 1

\* C8: in every reachable state, mark_unwatched(U, S) on an existing show S
\* with a Watch row for (U, S) is answered 204 and removes that row and
\* nothing else, and the same request made again directly afterwards is
\* answered 404; with no such row it is answered 404 and the store is
\* unchanged.
C8_UnwatchDeletesOrNotWatched ==
    \A u \in Users, id \in ShowIds :
        (\E s \in shows : s.id = id) =>
            \A o \in unwatch_show(DB, u, id) :
                IF RowsFor(watches, u, id) # {}
                THEN /\ o.resp.status = 204
                     /\ o.shows = shows
                     /\ \E w \in RowsFor(watches, u, id) :
                           o.watches = watches (-) SetToBag({w})
                     /\ CountFor(o.watches, u, id) = 0
                     /\ \A o2 \in unwatch_show([shows |-> o.shows, watches |-> o.watches], u, id) :
                           /\ o2.resp.status = 404
                           /\ o2.shows = o.shows
                           /\ o2.watches = o.watches
                ELSE /\ o.resp.status = 404
                     /\ o.shows = shows
                     /\ o.watches = watches

\* C8 witness: a mark_unwatched request has been answered 204 and another
\* user's row for a show is still in the store.
C8_Witness ==
    /\ req = "unwatch_show"
    /\ resp.status = 204
    /\ watches # EmptyBag

\* C9 (as claimed): create(title) is answered 201 with a new Show of a fresh
\* id when no show has exactly that title, and 400 with no row added when one
\* has.
C9_CreateOrDuplicate ==
    [][\A u \in Users, title \in Titles :
          CreateShow(u, title) =>
              IF \E s \in shows : s.title = title
              THEN /\ resp'.status = 400
                   /\ shows' = shows
              ELSE /\ resp'.status = 201
                   /\ \E s \in shows' \ shows :
                         /\ shows' = shows \cup {s}
                         /\ s.title = title
                         /\ s.id \notin {x.id : x \in shows}
                         /\ resp'.body.id = s.id
      ]_vars

\* C10 (as claimed): rename(show_id, new_title) on an existing show is
\* answered 200 and changes nothing when new_title is the show's title;
\* otherwise it is answered 400, no title changed, exactly when another show
\* has new_title, and else is answered 200 and sets the title.
C10_RenameOrDuplicate ==
    [][\A u \in Users, id \in ShowIds, title \in Titles :
          ((\E s \in shows : s.id = id) /\ UpdateShow(u, id, Some(title))) =>
              \E show \in {s \in shows : s.id = id} :
                  IF title = show.title
                  THEN /\ resp'.status = 200
                       /\ shows' = shows
                  ELSE IF \E s \in shows : s.id # id /\ s.title = title
                  THEN /\ resp'.status = 400
                       /\ shows' = shows
                  ELSE /\ resp'.status = 200
                       /\ shows' = (shows \ {show}) \cup {[show EXCEPT !.title = title]}
      ]_vars

\* C11 (as claimed): GET /shows/?watched=true is answered 200 with one entry
\* for each show the requesting user has a Watch row for and no other entry,
\* and each entry carries that row's rating and that row's watched_at.
C11_WatchedFilterListsWatched ==
    \A u \in Users :
        \A o \in list_shows(DB, u, Some(TRUE)) :
            /\ o.resp.status = 200
            /\ \A s \in shows :
                  CountId(o.resp.body, s.id) = IF RowsFor(watches, u, s.id) # {} THEN 1 ELSE 0
            /\ \A e \in BagToSet(o.resp.body) :
                  \E w \in RowsFor(watches, u, e.id) :
                      /\ e.rating = Some(w.rating)
                      /\ e.watched_at = Some(w.watched_at)

\* C12: in every reachable state GET /shows/ without a filter is answered 200
\* with exactly one entry per existing show; the entry has watched = true
\* and the rating of the requesting user's Watch row when the user has one,
\* and watched = false and rating = null otherwise, whatever rows other
\* users have for the show.
C12_ListAnnotatesOwnWatches ==
    \A u \in Users :
        \A o \in list_shows(DB, u, None) :
            /\ o.resp.status = 200
            /\ o.shows = shows /\ o.watches = watches
            /\ \A s \in shows : CountId(o.resp.body, s.id) = 1
            /\ \A e \in BagToSet(o.resp.body) :
                  /\ \E s \in shows : s.id = e.id /\ s.title = e.title
                  /\ IF \E w \in BagToSet(watches) : w.user = u /\ w.show_id = e.id
                     THEN /\ e.watched = TRUE
                          /\ \E w \in BagToSet(watches) :
                                w.user = u /\ w.show_id = e.id /\ e.rating = Some(w.rating)
                     ELSE /\ e.watched = FALSE
                          /\ e.rating = None

\* C12 witness: the list just returned has a show the requesting user has
\* watched, rating 5, and a show it has not watched that the other user has.
C12_Witness ==
    /\ req = "list_shows"
    /\ resp.status = 200
    /\ \E e \in BagToSet(resp.body) : e.watched /\ e.rating = Some(5)
    /\ \E e \in BagToSet(resp.body) :
          /\ ~e.watched
          /\ e.rating = None
          /\ \E w \in BagToSet(watches) : w.show_id = e.id

\* C13: in every reachable state GET /users/{username}/watched and
\* GET /users/{username}/unwatched are answered 404 when username is not a
\* key of the credential table and 200 when it is, with or without Watch rows
\* of that user, and leave the store as it is.
C13_UserNotFoundIffNotInTable ==
    \A u \in Users, username \in Users \cup UnknownUsers :
        \A o \in get_user_watched_shows(DB, username, u)
                   \cup get_user_unwatched_shows(DB, username, u) :
            /\ o.resp.status = IF username \in {"ray", "dana"} THEN 200 ELSE 404
            /\ o.shows = shows /\ o.watches = watches

\* C13 witness: the unwatched list of a user without any Watch row has just
\* been returned, every show is in it, and the other user has Watch rows.
C13_Witness ==
    /\ req = "get_user_unwatched_shows"
    /\ resp.status = 200
    /\ shows # {}
    /\ watches # EmptyBag
    /\ \A s \in shows : CountId(resp.body, s.id) = 1

\* C17 (as claimed): a request that is answered with an error status leaves
\* the committed Show and Watch rows exactly as they were before it.
C17_ErrorLeavesStoreUnchanged ==
    \A u \in Users :
        \A o \in UNION ({create_show(DB, u, title, now) : title \in Titles}
                        \cup {update_show(DB, u, id, title) : id \in ShowIds, title \in OptTitles}
                        \cup {delete_show(DB, u, id) : id \in ShowIds}
                        \cup {watch_show(DB, u, id, r, now) : id \in ShowIds, r \in Ratings}
                        \cup {unwatch_show(DB, u, id) : id \in ShowIds}) :
            o.resp.status >= 400 => (o.shows = shows /\ o.watches = watches)


\* C14: in every reachable state POST /auth/login is answered 200 with a
\* token whose subject is the username, which the protected routes accept as
\* that user, when the pair is ray/password123 or dana/secret, and is
\* answered 401 without a token for every other pair.
C14_LoginIffCredentialsMatch ==
    \A username \in LoginNames, password \in Passwords :
        LET r == login(username, password, now)
        IN IF \/ (username = "ray" /\ password = "password123")
              \/ (username = "dana" /\ password = "secret")
           THEN /\ r.status = 200
                /\ r.body.user = username
                /\ r.body.access_token.claims.sub = username
                /\ get_current_user(Some(r.body.access_token), now)
                      = {[ok |-> TRUE, user |-> username]}
           ELSE /\ r.status = 401
                /\ r.body = "Incorrect username or password"

\* C14 witness: dana has just logged in, some time after the start, and the
\* token of the response is among the issued ones.
C14_Witness ==
    /\ req = "login"
    /\ resp.status = 200
    /\ resp.body.user = "dana"
    /\ resp.body.access_token \in tokens
    /\ now > 0

\* C15 (as claimed): a bearer token is accepted, as its subject, exactly when
\* POST /auth/login issued it, its expiry (issue time + 60 minutes) has not
\* passed and its subject is in the credential table; with any other
\* Authorization header, or none, every protected route is answered 401 and
\* leaves the store as it is.
C15_OnlyIssuedUnexpiredTokensPass ==
    \A cred \in Credentials :
        \A a \in get_current_user(cred, now) :
            IF /\ cred # None
               /\ cred[1] \in tokens
               /\ cred[1].claims.exp >= now
               /\ cred[1].claims.sub \in {"ray", "dana"}
            THEN /\ a.ok
                 /\ a.user = cred[1].claims.sub
            ELSE /\ ~a.ok
                 /\ \A o \in Depends(DB, {a}, [u \in Users |-> create_show(DB, u, "Foo", now)])
                             \cup Depends(DB, {a}, [u \in Users |-> watch_show(DB, u, 1, 5, now)])
                             \cup Depends(DB, {a}, [u \in Users |-> unwatch_show(DB, u, 1)])
                             \cup Depends(DB, {a}, [u \in Users |-> list_shows(DB, u, None)]) :
                       /\ o.resp.status = 401
                       /\ o.shows = shows
                       /\ o.watches = watches


\* C16: in every reachable state a worker that is serving no request has no
\* open session: the session a request opened is closed when the request
\* ends, whether its handler returned, raised an HTTPException (400, 404) or
\* raised an unexpected exception.
C16_SessionClosedAtRequestEnd ==
    \A w \in Workers : calls[w].pc = "idle" => w \notin sessions

\* C16 witness: a delete-show request that ended in an AttributeError has
\* just been answered 500; its worker has no session, the other worker is in
\* the middle of a request and has one.
C16_Witness ==
    /\ req = "delete_show"
    /\ resp.status = 500
    /\ \E w \in Workers :
          /\ calls[w].pc = "idle"
          /\ sessions = Workers \ {w}

\* C18 (as claimed): when mark_watched requests for the same (user, show_id)
\* interleave, at most one of them inserts: no state has two Watch rows for
\* one pair.
C18_ConcurrentWatchInsertsOnce ==
    \A x \in BagToSet(watches) :
        /\ watches[x] = 1
        /\ \A y \in BagToSet(watches) :
              (x.user = y.user /\ x.show_id = y.show_id) => x = y

C20_SeedOnlyEmptyStore ==
    /\ \A a, b \in shows : a.title = b.title => a = b
    /\ \A env \in SeedValues :
          \A o \in startup_event(DB, env, now) :
              /\ IF env \in {Some("true"), Some("TRUE")} /\ shows = {}
                 THEN /\ {s.title : s \in o.shows}
                            = {"Breaking Bad", "The Wire", "Mad Men", "The Sopranos",
                               "Game of Thrones"}
                      /\ Cardinality(o.shows) = 5
                 ELSE o.shows = shows
              /\ o.watches = watches
              /\ (env \in {Some("true"), Some("TRUE")} \/ shows # {}) =>
                    \A env2 \in SeedValues :
                        \A o2 \in startup_event([shows |-> o.shows, watches |-> o.watches],
                                                env2, now) :
                            o2.shows = o.shows /\ o2.watches = o.watches

\* C20 witness: the server has just been started on a store that holds the
\* five demo shows and a sixth show, and a Watch row.
C20_Witness ==
    /\ req = "startup_event"
    /\ Cardinality(shows) = 6
    /\ watches # EmptyBag

\* C21: in every reachable state the rating of every Watch row is one of 1,
\* 2, 3, 4, 5, whatever ratings the mark_watched requests carried, on a first
\* watch and on a watch of a show already watched.
C21_StoredRatingsInRange ==
    \A x \in BagToSet(watches) : x.rating \in {1, 2, 3, 4, 5}

\* C21 witness: a mark_watched request has just been refused with 400 while
\* rows with the lowest and with the highest rating are stored.
C21_Witness ==
    /\ req = "watch_show"
    /\ resp.status = 400
    /\ \E x, y \in BagToSet(watches) : x.rating = 1 /\ y.rating = 5

\* C22: in every reachable state a mark_watched or mark_unwatched request
\* of user U for show S, whatever its answer, leaves every Show row, every
\* Watch row of another user and every Watch row of U for another show as it
\* is, and with them the lists every other user gets from GET /shows/,
\* GET /users/{username}/watched and GET /users/{username}/unwatched.
C22_WatchTouchesOwnPairOnly ==
    \A u \in Users, id \in ShowIds :
        \A o \in UNION {watch_show(DB, u, id, r, now) : r \in Ratings}
                   \cup unwatch_show(DB, u, id) :
            LET after == [shows |-> o.shows, watches |-> o.watches]
            IN /\ o.shows = shows
               /\ \A x \in BagToSet(watches) \cup BagToSet(o.watches) :
                     (x.user # u \/ x.show_id # id) =>
                         CopiesIn(x, o.watches) = CopiesIn(x, watches)
               /\ \A v \in Users \ {u} :
                     /\ {q.resp : q \in list_shows(after, v, None)}
                           = {q.resp : q \in list_shows(DB, v, None)}
                     /\ {q.resp : q \in get_user_watched_shows(after, v, v)}
                           = {q.resp : q \in get_user_watched_shows(DB, v, v)}
                     /\ {q.resp : q \in get_user_unwatched_shows(after, v, v)}
                           = {q.resp : q \in get_user_unwatched_shows(DB, v, v)}

\* C22 witness: a mark_unwatched request has just removed a row while the
\* other user has a row for the same show and a row for the other show.
C22_Witness ==
    /\ req = "unwatch_show"
    /\ resp.status = 204
    /\ Cardinality(shows) = 2
    /\ \E v \in Users :
          /\ \A s \in shows : CountFor(watches, v, s.id) = 1
          /\ \E s \in shows : \A u \in Users \ {v} : CountFor(watches, u, s.id) = 0

====
